---- MODULE Spec2Model ----
(***************************************************************************)
(* The stream connector of x-filtered-stream-railway: the connection       *)
(* supervisor (runStream driving startStream), its liveness monitor and    *)
(* the termination hook, in the three supervisor revisions of the          *)
(* repository:                                                             *)
(*   "timerBackoff"   src/app.js 1-192      (timer reset, 429 back-off)    *)
(*   "pollingBackoff" src/app.js 194-384    (polled interval, 429 back-off)*)
(*   "timerFixed"     src/unnamed/part_003  (timer reset, fixed 30 s)      *)
(*                                                                         *)
(* and the conversation grouper of the batching revision,                  *)
(*   src/unnamed/part_002  (processGroup, startStream, shutdown),          *)
(* which is a program of its own: its specification is GroupSpec; and the   *)
(* text reconstruction of forwardTweet / getFullTweetText, a pure function *)
(* applied to bounded inputs under TextSpec.                               *)
(*                                                                         *)
(* Units: every duration is in SECONDS (the source holds milliseconds and  *)
(* logs seconds: reconnectDelay / 1000).  JavaScript runs each piece of    *)
(* code between two awaits to completion, so one action is one such piece. *)
(***************************************************************************)
EXTENDS Integers, FiniteSets, Sequences, TLC

\* ------------------------------------------------------------------ bounds

\* Connection objects the provider can hand out at the same time.
NumConnIds == 2
\* Consecutive rate-limit failures the environment may produce.
MaxBackoffSteps == 17
\* Interval checks that may still run after the inactivity timeout was reached.
MaxOverdueTicks == 2

\* Posts the provider delivers to the grouper in one run.
MaxPosts == 3
\* Post identifiers the provider draws from.
MaxTweetId == 4
\* Conversations the delivered posts belong to.
NumConvs == 2

\* Reference descriptors one delivered post carries.
MaxRefs == 2
\* Posts a reference descriptor can point to.
NumRefTargets == 2

\* --------------------------------------------------------- program constants

INACTIVITY_TIMEOUT == 1800
CHECK_INTERVAL == 60
INITIAL_DELAY == 30
RATE_LIMIT_FLOOR == 60
\* The debounce delay of the grouper, in seconds.
DEBOUNCE == 2
\* Node keeps a timer's delay as a signed 32-bit count of milliseconds.
TIMEOUT_MAX == 2147483647 \div 1000

Variants == {"timerBackoff", "pollingBackoff", "timerFixed"}
BackoffVariants == {"timerBackoff", "pollingBackoff"}
TimerVariants == {"timerBackoff", "timerFixed"}

ConnIds == 1..NumConnIds
ConvIds == 1..NumConvs
TweetIds == 1..MaxTweetId
ErrorKinds == {"rateLimit", "abort", "other"}

VARIABLES
  variant,            \* which revision of the supervisor runs
  tokenSet,           \* process.env.TWITTER_BEARER_TOKEN is defined
  webhookSet,         \* process.env.WEBHOOK_URL is defined
  pc,                 \* where the runStream/startStream coroutine is suspended
  isShuttingDown,     \* the global flag
  streamInstance,     \* the global handle: 0 is null/undefined, else a connection
  conns,              \* the provider's connection objects
  reconnectDelay,     \* runStream's local
  waitFor,            \* duration of the most recent reconnect wait
  prevDelay,          \* reconnectDelay before the most recent startStream ended
  idle,               \* check intervals (in seconds) the monitor's clock
                      \* ran since the liveness state was last refreshed
  beatSince,          \* a provider heartbeat arrived later than that refresh
  inactivityTimer,    \* the startStream timeout is pending
  inactivityInterval, \* the startStream interval is installed
  exitKind,           \* how the most recent startStream cycle ended
  exitOrigin,         \* where the error that ended it was raised
  exitForced,         \* the liveness monitor had closed that cycle's connection
  streamedSince,      \* events were delivered since the last rate-limit failure
  lastForward,        \* outcome of the most recent forwardTweet
  signalled,          \* SIGTERM or SIGINT was delivered
  signalledAt,        \* pc at the moment of the signal
  unhandledFault,     \* an exception escaped every handler
  \* ---- src/unnamed/part_002
  gpc,                \* where the grouper's startStream is suspended
  groups,             \* the global Map: conversation id -> buffered tweets
  timers,             \* conversations whose debounce timeout is pending
  age,                \* per conversation: time since that timeout was armed
  observed,           \* the posts delivered so far, in arrival order
  finalized,          \* the processGroup calls made so far, with their result
  inflight,           \* processGroup calls suspended in await axios.post
  \* ---- forwardTweet(data, includes) as a function
  event,              \* the stream event: [tweet, includes]
  forwarded,          \* what forwardTweet did with it
  fpc                 \* "ready" before the call, "done" after it

reconstructor == <<event, forwarded, fpc>>
grouper == <<gpc, groups, timers, age, observed, finalized, inflight>>

\* What never changes while the supervisor runs, and the state of the
\* repository's other programs.
supervisor == <<variant, tokenSet, webhookSet, pc, isShuttingDown, streamInstance, conns,
                reconnectDelay, waitFor, prevDelay, idle, beatSince,
                inactivityTimer,
                inactivityInterval, exitKind, exitOrigin, exitForced,
                streamedSince, lastForward, signalled, signalledAt,
                unhandledFault>>
static == <<variant, tokenSet, webhookSet>>
others == <<grouper, reconstructor>>

vars == <<supervisor, grouper, reconstructor>>

history == <<exitKind, exitOrigin, exitForced, streamedSince, prevDelay>>
signal == <<signalled, signalledAt>>

\* ------------------------------------------------------- the environment

\* A connection object: st is "unused", "open" or "closed"; destroys counts the
\* destroy() calls made on it, by caller: the liveness monitor's callback,
\* startStream's finally block, the shutdown hook.
NoConn == [st |-> "unused", destroys |-> [monitor |-> 0, teardown |-> 0, shutdown |-> 0]]

\* twitterClient.v2.searchStream resolves with a new connection object.
FreshConn(cs) ==
  CHOOSE c \in ConnIds :
    /\ cs[c].st # "open"
    /\ \A d \in ConnIds : d < c => cs[d].st = "open"

OpenConns == {c \in ConnIds : conns[c].st = "open"}

\* streamInstance.destroy() called by `caller`: the connection is released.
Destroyed(cs, c, caller) ==
  [cs EXCEPT ![c] = [st |-> "closed",
                     destroys |-> [@.destroys EXCEPT ![caller] = @ + 1]]]

\* destroy() may raise, on the first release as on a later one (the fault
\* the finally block of startStream guards against); whether it does is the
\* library's choice.  There is nothing to release without a handle.
DestroyFaults(h) ==
  IF h # 0 THEN BOOLEAN ELSE {FALSE}

\* setTimeout(f, ms): a delay above TIMEOUT_MAX does not fit the timer and is
\* replaced by 1 ms, which is 0 in whole seconds.
TimerDelay(d) == IF d > TIMEOUT_MAX THEN 0 ELSE d

\* The environment stops producing rate-limit failures after MaxBackoffSteps
\* consecutive ones.
RateLimitAllowed ==
  reconnectDelay < RATE_LIMIT_FLOOR * (2 ^ (MaxBackoffSteps - 1))

Alive == pc \notin {"start", "done", "exited", "crashed", "drained"}

Streaming == pc \in {"streaming", "forwarding"}

\* ------------------------------------------------------------ startStream

\* resetInactivityTimer() in the timer revisions, lastTweetTime = Date.now()
\* in the polling revision.
RefreshLiveness ==
  /\ idle' = 0
  /\ beatSince' = FALSE
  /\ inactivityTimer' = (variant \in TimerVariants)

\* A catch block that throws every error on to runStream.
CatchRethrowsEvery(kind) ==
  variant \in BackoffVariants /\ kind \in ErrorKinds

\* A catch block that also throws the cancellation signal on to runStream.
CatchRethrowsAbort(kind) ==
  variant \in BackoffVariants /\ kind \in {"rateLimit", "abort"}

\* The catch block: a 429 is thrown on to runStream by the back-off revisions;
\* every other error, and every error in part_003, is logged and swallowed.
CatchRethrows(kind) == variant \in BackoffVariants /\ kind = "rateLimit"

\* A finally block that drops the handle without releasing the connection.
TeardownConnsLeak == conns

\* The connection table after the finally block: destroy() inside try/catch.
TeardownConns ==
  IF streamInstance # 0 THEN Destroyed(conns, streamInstance, "teardown") ELSE conns

\* A finally block that releases the connection but leaves the handle set.
FinallyKeepsHandle ==
  /\ inactivityTimer' = FALSE
  /\ inactivityInterval' = FALSE
  /\ conns' = TeardownConns
  /\ streamInstance' = streamInstance

\* A finally block without clearTimeout / clearInterval.
FinallyKeepsMonitor ==
  /\ UNCHANGED <<inactivityTimer, inactivityInterval>>
  /\ conns' = TeardownConns
  /\ streamInstance' = 0

\* The finally block: clear the timer or interval, release, null the handle.
Finally ==
  /\ inactivityTimer' = FALSE
  /\ inactivityInterval' = FALSE
  /\ conns' = TeardownConns
  /\ streamInstance' = 0

\* -------------------------------------------------------------- runStream

\* A runStream that omits reconnectDelay = 30000 after a normal return.
NextDelayNoReset(rethrown) ==
  IF variant = "timerFixed" THEN INITIAL_DELAY
  ELSE IF rethrown
       THEN (IF reconnectDelay < RATE_LIMIT_FLOOR
             THEN RATE_LIMIT_FLOOR ELSE reconnectDelay * 2)
       ELSE reconnectDelay

\* reconnectDelay after one startStream call: reset on a normal return,
\* raised to the floor or doubled on a re-thrown 429; part_003 has no
\* variable and always waits the literal 30 s.
NextDelay(rethrown) ==
  IF variant = "timerFixed" THEN INITIAL_DELAY
  ELSE IF rethrown
       THEN (IF reconnectDelay < RATE_LIMIT_FLOOR
             THEN RATE_LIMIT_FLOOR ELSE reconnectDelay * 2)
       ELSE INITIAL_DELAY

\* A runStream without the loop: it returns after the first startStream call.
AfterCycleNoLoop(delay) ==
  /\ pc' = "done"
  /\ waitFor' = waitFor

\* The tail of the loop body: wait reconnectDelay unless shutting down.
AfterCycle(delay) ==
  IF ~isShuttingDown
  THEN /\ pc' = "waiting"
       /\ waitFor' = TimerDelay(delay)
  ELSE /\ pc' = "done"
       /\ waitFor' = waitFor

\* startStream leaves its try block (kind "end": the for-await loop finished,
\* otherwise the kind of the error caught), runs catch and finally, and
\* runStream handles the outcome up to its next await.
CycleEnd(kind, origin, streamed) ==
  LET delay == NextDelay(CatchRethrows(kind)) IN
  /\ Finally
  /\ idle' = 0
  /\ reconnectDelay' = delay
  /\ AfterCycle(delay)
  /\ exitKind' = kind
  /\ exitOrigin' = origin
  /\ exitForced' = (streamInstance # 0 /\ conns[streamInstance].destroys.monitor > 0)
  /\ streamedSince' = (kind # "rateLimit" /\ streamed)
  /\ prevDelay' = reconnectDelay
  /\ beatSince' = FALSE
  /\ UNCHANGED <<static, others, isShuttingDown, lastForward, signal, unhandledFault>>

\* One pass of while (!isShuttingDown) up to the first await of startStream.
LoopIteration ==
  IF isShuttingDown
  THEN /\ pc' = "done"
       /\ UNCHANGED <<static, others, beatSince, isShuttingDown, streamInstance, conns,
                      reconnectDelay, waitFor, idle, inactivityTimer,
                      inactivityInterval, history, lastForward, signal,
                      unhandledFault>>
  ELSE IF streamInstance # 0
  THEN \* 'Stream is already active.': startStream returns at once
       /\ reconnectDelay' = NextDelay(FALSE)
       /\ AfterCycle(NextDelay(FALSE))
       /\ exitKind' = "guard"
       /\ exitOrigin' = "none"
       /\ exitForced' = FALSE
       /\ prevDelay' = reconnectDelay
       /\ UNCHANGED <<static, others, beatSince, isShuttingDown, streamInstance, conns, idle,
                      inactivityTimer, inactivityInterval, streamedSince,
                      lastForward, signal, unhandledFault>>
  ELSE \* searchStream is called and awaited
       /\ pc' = "connecting"
       /\ idle' = 0
       /\ inactivityInterval' = (variant = "pollingBackoff")
       /\ UNCHANGED <<static, others, beatSince, isShuttingDown, streamInstance, conns,
                      reconnectDelay, waitFor, inactivityTimer, history,
                      lastForward, signal, unhandledFault>>

\* runStream() at module load.
Start ==
  /\ pc = "start"
  /\ LoopIteration

\* The reconnect wait is over.
WakeUp ==
  /\ pc = "waiting"
  /\ LoopIteration

\* searchStream resolves: the handle is set, the liveness state refreshed and
\* the for-await loop asks for the first event.  The provider accepts no
\* request that carries no bearer token.
ConnectOk ==
  /\ pc = "connecting"
  /\ tokenSet
  /\ \E c \in ConnIds : conns[c].st # "open"
  /\ LET c == FreshConn(conns) IN
       /\ streamInstance' = c
       /\ conns' = [conns EXCEPT ![c] = [NoConn EXCEPT !.st = "open"]]
  /\ RefreshLiveness
  /\ pc' = "streaming"
  /\ UNCHANGED <<static, others, isShuttingDown, reconnectDelay, waitFor,
                 inactivityInterval, history, lastForward, signal,
                 unhandledFault>>

\* searchStream rejects.
ConnectFail ==
  /\ pc = "connecting"
  /\ \E kind \in ErrorKinds :
       /\ kind = "rateLimit" => RateLimitAllowed
       /\ CycleEnd(kind, "connect", streamedSince)

\* The provider delivers a post on a connection that is still open (a released
\* connection delivers nothing more).  forwardTweet reads includes.users before
\* its try block: without that table it throws and the loop is left through
\* catch.
StreamEvent ==
  /\ pc = "streaming"
  /\ conns[streamInstance].st = "open"
  /\ \E hasUsers \in BOOLEAN :
       IF hasUsers
       THEN /\ RefreshLiveness
            /\ pc' = "forwarding"
            /\ streamedSince' = TRUE
            /\ UNCHANGED <<static, others, isShuttingDown, streamInstance, conns,
                           reconnectDelay, waitFor, inactivityInterval,
                           exitKind, exitOrigin, exitForced, prevDelay,
                           lastForward,
                           signal, unhandledFault>>
       ELSE CycleEnd("other", "handler", TRUE)

\* The provider sends a keep-alive on the open connection.  The stream
\* object hands only posts to the for-await loop, so no code of startStream
\* runs and the liveness state stays as it is.
Heartbeat ==
  /\ Streaming
  /\ conns[streamInstance].st = "open"
  /\ idle > 0
  /\ beatSince' = TRUE
  /\ UNCHANGED <<static, others, pc, isShuttingDown, streamInstance, conns,
                 reconnectDelay, waitFor, idle, inactivityTimer,
                 inactivityInterval, history, lastForward, signal,
                 unhandledFault>>

\* axios.post settles; a rejection is logged inside forwardTweet.  A POST to
\* an undefined URL is always rejected.
ForwardDone ==
  /\ pc = "forwarding"
  /\ \E outcome \in {"ok", "sinkFail"} :
       /\ outcome = "ok" => webhookSet
       /\ lastForward' = outcome
  /\ pc' = "streaming"
  /\ UNCHANGED <<static, others, beatSince, isShuttingDown, streamInstance, conns,
                 reconnectDelay, waitFor, idle, inactivityTimer,
                 inactivityInterval, history, signal, unhandledFault>>

\* The for-await loop ends or throws.  How the iteration of a connection
\* that was released locally ends is the library's choice: the catch block
\* tests error.code whoever closed the connection.
StreamEnds ==
  /\ pc = "streaming"
  /\ \E kind \in ErrorKinds \cup {"end"} :
       /\ kind = "rateLimit" => RateLimitAllowed
       /\ CycleEnd(kind, "stream", streamedSince)

\* The iteration of a released connection never settles and nothing else is
\* pending (no timeout, no interval, no request): the event loop is empty
\* and the process ends with status 0, the for-await loop still suspended.
EventLoopDrains ==
  /\ pc = "streaming"
  /\ conns[streamInstance].st = "closed"
  /\ ~inactivityTimer
  /\ ~inactivityInterval
  /\ pc' = "drained"
  /\ UNCHANGED <<static, others, beatSince, isShuttingDown, streamInstance, conns,
                 reconnectDelay, waitFor, idle, inactivityTimer,
                 inactivityInterval, history, lastForward, signal,
                 unhandledFault>>

\* ------------------------------------------------------ liveness monitor

\* An uncaught exception in a timer callback or a signal handler ends the
\* process with a failure status.
Crash ==
  /\ pc' = "crashed"
  /\ unhandledFault' = TRUE

\* The body of the monitor callback once it decided to restart the stream:
\* if (streamInstance && ...) streamInstance.destroy(), outside any try.
MonitorClose ==
  IF streamInstance # 0
  THEN \E fault \in DestroyFaults(streamInstance) :
         /\ conns' = Destroyed(conns, streamInstance, "monitor")
         /\ IF fault THEN Crash ELSE UNCHANGED <<pc, unhandledFault>>
  ELSE UNCHANGED <<conns, pc, unhandledFault>>

\* The monitor's test at a moment when the liveness state is `t` old.
MonitorDue(t) == t >= INACTIVITY_TIMEOUT

\* How much younger than `idle` the liveness state can be when the monitor
\* looks at it.  A timeout is armed by the refresh itself and fires exactly
\* INACTIVITY_TIMEOUT later.  The interval of the polling revision is
\* installed when startStream is called and keeps that phase, while
\* lastTweetTime is refreshed later (on connect, on each post): `idle` counts
\* the callbacks since the refresh, and the refresh fell anywhere between
\* the previous callback and the first one counted.
MonitorLags ==
  IF variant \in TimerVariants THEN {0} ELSE {0, CHECK_INTERVAL - 1}

\* What a connection's liveness state can read on `idle` while the monitor
\* has not yet seen the timeout pass.
MonitorDeadline ==
  IF variant \in TimerVariants
  THEN INACTIVITY_TIMEOUT
  ELSE INACTIVITY_TIMEOUT + CHECK_INTERVAL

\* One check interval passes and the monitor has nothing to do: the timeout
\* is still pending, or the interval callback finds the stream active.
TimePasses ==
  /\ Alive
  /\ inactivityTimer \/ inactivityInterval
  /\ \E lag \in MonitorLags : ~MonitorDue(idle + CHECK_INTERVAL - lag)
  /\ idle' = idle + CHECK_INTERVAL
  /\ UNCHANGED <<static, others, beatSince, pc, isShuttingDown, streamInstance, conns,
                 reconnectDelay, waitFor, inactivityTimer, inactivityInterval,
                 history, lastForward, signal, unhandledFault>>

\* The timeout armed by resetInactivityTimer fires (timer revisions).
TimerFires ==
  /\ Alive
  /\ inactivityTimer
  /\ MonitorDue(idle + CHECK_INTERVAL)
  /\ idle' = idle + CHECK_INTERVAL
  /\ inactivityTimer' = FALSE
  /\ MonitorClose
  /\ UNCHANGED <<static, others, beatSince, isShuttingDown, streamInstance, reconnectDelay,
                 waitFor, inactivityInterval, history, lastForward, signal>>

\* The interval callback runs and finds the stream inactive (polling revision).
IntervalFires ==
  /\ Alive
  /\ inactivityInterval
  /\ \E lag \in MonitorLags : MonitorDue(idle + CHECK_INTERVAL - lag)
  /\ idle + CHECK_INTERVAL <= INACTIVITY_TIMEOUT + MaxOverdueTicks * CHECK_INTERVAL
  /\ idle' = idle + CHECK_INTERVAL
  /\ MonitorClose
  /\ UNCHANGED <<static, others, beatSince, isShuttingDown, streamInstance, reconnectDelay,
                 waitFor, inactivityTimer, inactivityInterval, history,
                 lastForward, signal>>

\* --------------------------------------------------------------- shutdown

\* A termination hook that only releases the connection: no flag, no exit.
shutdownReleaseOnly(fault) ==
  /\ isShuttingDown' = isShuttingDown
  /\ conns' = IF streamInstance # 0
              THEN Destroyed(conns, streamInstance, "shutdown") ELSE conns
  /\ IF fault THEN Crash ELSE UNCHANGED <<pc, unhandledFault>>
  /\ UNCHANGED <<inactivityTimer, inactivityInterval>>

\* The termination hook: set the flag, release the active connection outside
\* any try, process.exit(0).
shutdown(fault) ==
  /\ isShuttingDown' = TRUE
  /\ conns' = IF streamInstance # 0
              THEN Destroyed(conns, streamInstance, "shutdown") ELSE conns
  /\ IF fault THEN Crash ELSE pc' = "exited" /\ unhandledFault' = unhandledFault
  /\ inactivityTimer' = FALSE
  /\ inactivityInterval' = FALSE

\* SIGTERM or SIGINT is delivered between two pieces of running code.
Signal ==
  /\ Alive
  /\ signalled' = TRUE
  /\ signalledAt' = pc
  /\ \E fault \in DestroyFaults(streamInstance) : shutdown(fault)
  /\ UNCHANGED <<static, others, beatSince, streamInstance, reconnectDelay, waitFor, idle,
                 history, lastForward>>

\* ------------------------------------------- the grouper (part_002)

\* Strings are sequences of characters.
Whitespace == {" ", "\n"}

\* The posts the provider delivers, by identifier: odd ones are replies whose
\* text starts with a mention, every third one has an author that
\* includes.users does not list.
TextOf(id) == IF id % 2 = 1 THEN <<" ", "@", "b", " ">> ELSE <<"a", " ">>
AuthorListed(id) == id % 3 # 0
\* A post belongs to one conversation: posts 2k and 2k+1 share one.
ConvOf(id) == ((id \div 2) % NumConvs) + 1

RECURSIVE TrimStart(_)
TrimStart(s) ==
  IF s # <<>> /\ Head(s) \in Whitespace THEN TrimStart(Tail(s)) ELSE s

RECURSIVE TrimEnd(_)
TrimEnd(s) ==
  IF s # <<>> /\ s[Len(s)] \in Whitespace
  THEN TrimEnd(SubSeq(s, 1, Len(s) - 1)) ELSE s

\* String.prototype.trim
Trim(s) == TrimEnd(TrimStart(s))

\* text.startsWith('@')
StartsWithAt(s) == s # <<>> /\ Head(s) = "@"

\* Array.prototype.join(' ')
RECURSIVE Join(_)
Join(texts) ==
  IF texts = <<>> THEN <<>>
  ELSE IF Len(texts) = 1 THEN texts[1]
  ELSE texts[1] \o <<" ">> \o Join(Tail(texts))

\* created_at of the post with identifier id: later posts have larger ids.
CreatedAt(id) == 1000 + id

\* group.tweets.sort((a, b) => BigInt(a.id) - BigInt(b.id)): the comparator
\* returns a BigInt, and Array.prototype.sort converts the comparator's result
\* with ToNumber, which throws a TypeError for a BigInt.  The comparator is
\* called as soon as the array has two elements; with one element the array
\* is left as it is.
SortThrows(tweets) == Len(tweets) >= 2

\* The discard rule for a standalone reply.
Discards(tweets) ==
  Len(tweets) = 1 /\ StartsWithAt(Trim(tweets[1].text))

\* The record processGroup builds from the (sorted) tweets.
Payload(conv, tweets) ==
  [timestamp |-> tweets[1].created_at,
   username |-> tweets[1].username,
   tweetId |-> conv,
   conversationId |-> conv,
   tweetText |-> Join([i \in 1..Len(tweets) |-> Trim(tweets[i].text)])]

\* processGroup up to its first await, as one entry of `finalized`: the
\* tweets it was given, how it went on, and the records handed to axios.post.
ProcessGroupResult(conv, tweets) ==
  IF SortThrows(tweets)
  THEN [conversation |-> conv, tweets |-> tweets, result |-> "rejected",
        records |-> {}]
  ELSE IF Discards(tweets)
  THEN [conversation |-> conv, tweets |-> tweets, result |-> "discarded",
        records |-> {}]
  ELSE [conversation |-> conv, tweets |-> tweets, result |-> "posted",
        records |-> {Payload(conv, tweets)}]

GAlive == gpc \in {"connecting", "streaming", "returned"}

\* A processGroup that leaves the group in the map while it is flushed.
GroupsAfterDeleteOmitted(conv) == groups

\* groups.delete(conversationId), the first statement of processGroup.
GroupsAfterDelete(conv) == [groups EXCEPT ![conv] = <<>>]

\* processGroup(conv, group) called from the timeout callback, which neither
\* awaits nor catches: a rejected call is an unhandled rejection, which ends
\* the process on Node 15 and later and is only reported before.
processGroup(conv) ==
  LET r == ProcessGroupResult(conv, groups[conv]) IN
  /\ groups' = GroupsAfterDelete(conv)
  /\ finalized' = Append(finalized, r)
  /\ inflight' = IF r.result = "posted"
                 THEN inflight \cup {Len(finalized) + 1} ELSE inflight
  /\ IF r.result = "rejected"
     THEN \E fatal \in BOOLEAN : gpc' = IF fatal THEN "crashed" ELSE gpc
     ELSE gpc' = gpc

\* searchStream resolves.
GConnectOk ==
  /\ gpc = "connecting"
  /\ gpc' = "streaming"
  /\ UNCHANGED <<groups, timers, age, observed, finalized, inflight, supervisor,
                 reconstructor>>

\* searchStream rejects: the catch logs and startStream returns.
GConnectFail ==
  /\ gpc = "connecting"
  /\ gpc' = "returned"
  /\ UNCHANGED <<groups, timers, age, observed, finalized, inflight, supervisor,
                 reconstructor>>

\* A grouper that restarts the debounce delay on every post.
TimerAgeRearmed(conv) == 0

\* The age of conv's timeout after a post of conv was handled: setTimeout is
\* called only when the conversation has no group; a post appended to an
\* existing group leaves the pending timeout alone.
TimerAge(conv) == IF groups[conv] # <<>> THEN age[conv] ELSE 0

\* One pass of the for-await body.  Without an includes.users table
\* includes.users.find throws and the catch ends the loop; an author the
\* table does not list gives the username "Unknown".
Observe ==
  /\ gpc = "streaming"
  /\ Len(observed) < MaxPosts
  /\ \E id \in TweetIds, hasUsers \in BOOLEAN :
       IF ~hasUsers
       THEN /\ gpc' = "returned"
            /\ UNCHANGED <<groups, timers, age, observed>>
       ELSE LET conv == ConvOf(id)
                tweet == [id |-> id, conversation_id |-> conv,
                          created_at |-> CreatedAt(id), text |-> TextOf(id),
                          username |-> IF AuthorListed(id)
                                       THEN "ann" ELSE "Unknown"] IN
            /\ gpc' = gpc
            /\ observed' = Append(observed, tweet)
            /\ groups' = [groups EXCEPT ![conv] = Append(@, tweet)]
            /\ timers' = IF groups[conv] # <<>> THEN timers
                         ELSE timers \cup {conv}
            /\ age' = [age EXCEPT ![conv] = TimerAge(conv)]
  /\ UNCHANGED <<finalized, inflight, supervisor, reconstructor>>

\* A startStream that cancels the pending timeouts when the stream ends.
GStreamEndsDropsTimers ==
  /\ gpc = "streaming"
  /\ gpc' = "returned"
  /\ timers' = {}
  /\ UNCHANGED <<groups, age, observed, finalized, inflight, supervisor,
                 reconstructor>>

\* The stream ends or fails: the loop is left, startStream returns.
GStreamEnds ==
  /\ gpc = "streaming"
  /\ gpc' = "returned"
  /\ UNCHANGED <<groups, timers, age, observed, finalized, inflight, supervisor,
                 reconstructor>>

\* One second passes while no pending timeout is due.
GTimePasses ==
  /\ GAlive
  /\ timers # {}
  /\ \A conv \in timers : age[conv] < DEBOUNCE
  /\ age' = [conv \in ConvIds |->
              IF conv \in timers THEN age[conv] + 1 ELSE age[conv]]
  /\ UNCHANGED <<gpc, groups, timers, observed, finalized, inflight,
                 supervisor, reconstructor>>

\* The debounce timeout of conversation conv fires, DEBOUNCE after it was
\* armed.
DebounceFires ==
  /\ GAlive
  /\ \E conv \in timers :
       /\ age[conv] = DEBOUNCE
       /\ timers' = timers \ {conv}
       /\ age' = [age EXCEPT ![conv] = 0]
       /\ IF groups[conv] # <<>>
          THEN processGroup(conv)
          ELSE UNCHANGED <<gpc, groups, finalized, inflight>>
  /\ UNCHANGED <<observed, supervisor, reconstructor>>

\* axios.post settles; a rejection is logged inside processGroup.
PostSettles ==
  /\ GAlive
  /\ \E i \in inflight : inflight' = inflight \ {i}
  /\ UNCHANGED <<gpc, groups, timers, age, observed, finalized, supervisor,
                 reconstructor>>

\* SIGINT or SIGTERM: close the stream, process.exit().
GSignal ==
  /\ GAlive
  /\ gpc' = "exited"
  /\ timers' = {}
  /\ inflight' = {}
  /\ UNCHANGED <<groups, age, observed, finalized, supervisor, reconstructor>>

\* -------------------------------- forwardTweet and getFullTweetText

\* Texts are sequences of tokens; "\n" is the newline character.  The posts
\* are drawn without URL entities, for which the URL replacement of
\* src/app.js 26-35, 46-56 does nothing and the revisions of getFullTweetText
\* coincide.
RefTargets == 1..NumRefTargets
RefTypes == {"quoted", "retweeted", "replied_to"}
MainAuthor == 0

\* The referenced posts by identifier: author k wrote post k; post 1 spans
\* two lines, the others carry a long-form note.
RefTweet(k) ==
  [id |-> k, author_id |-> k,
   text |-> IF k = 1 THEN <<"p", "\n", "q">> ELSE <<"r">>,
   note |-> IF k = 1 THEN <<>> ELSE <<"long", "\n", "r">>]

\* user.username of user u
UserName(u) == <<<<"main", "ann", "bob", "cy", "dee">>[u + 1]>>

\* The posts the stream delivers: text, optional note_tweet.text (<<>> when
\* absent or empty), referenced_tweets in the provider's order.
Tweets ==
  [text : {<<"x">>, <<"x", "\n", "y">>},
   note : {<<>>, <<"n">>},
   refs : UNION {[1..n -> [type : RefTypes, id : RefTargets]] : n \in 0..MaxRefs}]

\* The includes object: undefined, or its tables tweets and users, each
\* either undefined or listing some posts and users.
Includes ==
  {[defined |-> FALSE, hasTweets |-> FALSE, tweets |-> {},
    hasUsers |-> FALSE, users |-> {}]}
  \cup
  {[defined |-> TRUE, hasTweets |-> ht, tweets |-> ts,
    hasUsers |-> hu, users |-> us] :
     ht \in BOOLEAN, hu \in BOOLEAN,
     ts \in SUBSET RefTargets, us \in SUBSET (RefTargets \cup {MainAuthor})}

IncludesOk(inc) ==
  /\ inc.hasTweets \/ inc.tweets = {}
  /\ inc.hasUsers \/ inc.users = {}

\* tweet.note_tweet && tweet.note_tweet.text ? tweet.note_tweet.text : tweet.text
BaseText(t) == IF t.note # <<>> THEN t.note ELSE t.text

\* referencedFullText.replace(/\n/g, " ")
CollapseNewlines(s) == [i \in 1..Len(s) |-> IF s[i] = "\n" THEN " " ELSE s[i]]

\* user ? user.username : "unknown" after includes.users.find
HandleOf(inc, u) == IF u \in inc.users THEN UserName(u) ELSE <<"unknown">>

\* One pass of the forEach callback on the text built so far: a target that
\* includes.tweets does not hold leaves the text as it is; a quote appends
\* its annotation; a retweet replaces the text; any other type does nothing.
ApplyRef(fullText, ref, inc) ==
  IF ref.id \notin inc.tweets THEN fullText
  ELSE LET referencedFullText == CollapseNewlines(BaseText(RefTweet(ref.id)))
           handle == HandleOf(inc, RefTweet(ref.id).author_id)
       IN IF ref.type = "quoted"
          THEN fullText \o <<" [quoted tweet by @">> \o handle \o <<"]">>
                 \o referencedFullText \o <<"[/quoted tweet]">>
          ELSE IF ref.type = "retweeted"
          THEN <<"RT @">> \o handle \o <<" ">> \o referencedFullText
          ELSE fullText

\* includes.users.find(...) inside the callback throws when a quote or
\* retweet resolved and includes has no users table.
RefThrows(ref, inc) ==
  ref.id \in inc.tweets /\ ref.type \in {"quoted", "retweeted"} /\ ~inc.hasUsers

RECURSIVE ApplyRefs(_, _, _)
ApplyRefs(fullText, refs, inc) ==
  IF refs = <<>> THEN [threw |-> FALSE, text |-> fullText]
  ELSE IF RefThrows(Head(refs), inc) THEN [threw |-> TRUE, text |-> <<>>]
  ELSE ApplyRefs(ApplyRef(fullText, Head(refs), inc), Tail(refs), inc)

\* getFullTweetText(tweet, includes)
getFullTweetText(t, inc) ==
  IF inc.defined /\ inc.hasTweets
  THEN ApplyRefs(BaseText(t), t.refs, inc)
  ELSE [threw |-> FALSE, text |-> BaseText(t)]

\* forwardTweet(tweet, includes) up to axios.post: includes.users.find is
\* evaluated first, outside the try block.
forwardTweet(t, inc) ==
  IF ~(inc.defined /\ inc.hasUsers)
  THEN [threw |-> TRUE, username |-> <<>>, tweetText |-> <<>>]
  ELSE [threw |-> getFullTweetText(t, inc).threw,
        username |-> HandleOf(inc, MainAuthor),
        tweetText |-> getFullTweetText(t, inc).text]

NotForwarded == [threw |-> FALSE, username |-> <<>>, tweetText |-> <<>>]

\* The for-await body hands one event to forwardTweet.
Forward ==
  /\ fpc = "ready"
  /\ forwarded' = forwardTweet(event.tweet, event.includes)
  /\ fpc' = "done"
  /\ UNCHANGED <<event, supervisor, grouper>>

\* ---------------------------------------------------------- specification

\* The grouper's variables while another program of the repository runs.
GrouperFields ==
  /\ groups = [c \in ConvIds |-> <<>>]
  /\ timers = {}
  /\ age = [c \in ConvIds |-> 0]
  /\ observed = <<>>
  /\ finalized = <<>>
  /\ inflight = {}

\* The reconstruction's variables while it is not under study.
ReconstructorFields ==
  /\ event = [tweet |-> [text |-> <<>>, note |-> <<>>, refs |-> <<>>],
              includes |-> [defined |-> FALSE, hasTweets |-> FALSE,
                            tweets |-> {}, hasUsers |-> FALSE, users |-> {}]]
  /\ forwarded = NotForwarded

SupervisorFields ==
  /\ isShuttingDown = FALSE
  /\ streamInstance = 0
  /\ conns = [c \in ConnIds |-> NoConn]
  /\ reconnectDelay = INITIAL_DELAY
  /\ waitFor = 0
  /\ prevDelay = INITIAL_DELAY
  /\ idle = 0
  /\ beatSince = FALSE
  /\ inactivityTimer = FALSE
  /\ inactivityInterval = FALSE
  /\ exitKind = "none"
  /\ exitOrigin = "none"
  /\ exitForced = FALSE
  /\ streamedSince = FALSE
  /\ lastForward = "none"
  /\ signalled = FALSE
  /\ signalledAt = "none"
  /\ unhandledFault = FALSE

\* The supervisor's variables while another program is under study.
SupervisorAbsent ==
  /\ variant = "none"
  /\ tokenSet = TRUE
  /\ webhookSet = TRUE
  /\ pc = "absent"
  /\ SupervisorFields

\* Module load.  Nothing reads the two environment variables before
\* runStream() is called: each may be undefined.
Init ==
  /\ variant \in Variants
  /\ tokenSet \in BOOLEAN
  /\ webhookSet \in BOOLEAN
  /\ pc = "start"
  /\ SupervisorFields
  /\ gpc = "absent"
  /\ GrouperFields
  /\ fpc = "absent"
  /\ ReconstructorFields

Next ==
  \/ Start
  \/ WakeUp
  \/ ConnectOk
  \/ ConnectFail
  \/ StreamEvent
  \/ Heartbeat
  \/ ForwardDone
  \/ StreamEnds
  \/ EventLoopDrains
  \/ TimePasses
  \/ TimerFires
  \/ IntervalFires
  \/ Signal

Spec == Init /\ [][Next]_vars

\* The reconnect wait is a setTimeout promise: once runStream awaits it, the
\* timer fires and the loop goes on, unless the process ends first.
FairSpec == Spec /\ WF_vars(WakeUp)

\* part_002 at module load: startStream() has called searchStream.
GroupInit ==
  /\ gpc = "connecting"
  /\ GrouperFields
  /\ SupervisorAbsent
  /\ fpc = "absent"
  /\ ReconstructorFields

GroupNext ==
  \/ GConnectOk
  \/ GConnectFail
  \/ Observe
  \/ GStreamEnds
  \/ GTimePasses
  \/ DebounceFires
  \/ PostSettles
  \/ GSignal

GroupSpec == GroupInit /\ [][GroupNext]_vars

\* Time goes on and a timeout that is due runs its callback: the event loop
\* is never blocked, every await of part_002 yields to it.
FairGroupSpec ==
  GroupSpec /\ WF_vars(GTimePasses) /\ WF_vars(DebounceFires)

\* One stream event, drawn from the bounded inputs, about to be forwarded.
TextInit ==
  /\ event \in [tweet : Tweets, includes : {inc \in Includes : IncludesOk(inc)}]
  /\ forwarded = NotForwarded
  /\ fpc = "ready"
  /\ SupervisorAbsent
  /\ gpc = "absent"
  /\ GrouperFields

TextNext == Forward

TextSpec == TextInit /\ [][TextNext]_vars

TypeOK ==
  /\ variant \in Variants
  /\ tokenSet \in BOOLEAN
  /\ webhookSet \in BOOLEAN
  /\ pc \in {"start", "connecting", "streaming", "forwarding", "waiting",
             "done", "exited", "crashed", "drained"}
  /\ isShuttingDown \in BOOLEAN
  /\ streamInstance \in {0} \cup ConnIds
  /\ \A c \in ConnIds : conns[c].st \in {"unused", "open", "closed"}
  /\ reconnectDelay \in Nat
  /\ waitFor \in Nat
  /\ idle \in Nat

\* ------------------------------------------------------------ properties

\* The step in which a startStream call that attempted a connection ends and
\* runStream reaches its next await.
CycleEnds == pc \in {"connecting", "streaming"} /\ pc' \in {"waiting", "done"}

\* The step in which runStream calls searchStream.
ConnectAttempt == pc # "connecting" /\ pc' = "connecting"

\* C1: in every reachable state at most one upstream connection is open; a
\* new connection is never opened while an earlier one is unreleased.
C1_AtMostOneOpenConnection == Cardinality(OpenConns) <= 1

\* C1 witness: a second cycle streams on an open connection after an
\* earlier cycle's stream ended.
C1_Witness ==
  /\ pc = "streaming"
  /\ exitOrigin = "stream"
  /\ streamInstance # 0
  /\ OpenConns = {streamInstance}

\* C2: the termination hook invoked while Streaming sets isShuttingDown and
\* leaves the active connection closed, and after the hook ran runStream
\* makes no connection attempt and schedules no reconnect wait.
C2_ShutdownStopsReconnect ==
  [][ /\ (Streaming /\ ~signalled /\ signalled')
         => (isShuttingDown' /\ conns'[streamInstance].st = "closed")
      /\ signalled => (~ConnectAttempt /\ ~CycleEnds /\ pc' = pc) ]_vars

\* C2 witness: the hook ran while the loop awaited the next event.
C2_Witness ==
  /\ signalled
  /\ signalledAt = "streaming"
  /\ isShuttingDown
  /\ pc = "exited"
  /\ conns[streamInstance].st = "closed"

\* C3 (as claimed): a connection never stays open once the monitor has seen
\* the inactivity timeout pass without an event; the cycle of a connection
\* the monitor force-closed is left, unless a shutdown is requested, only
\* through startStream's teardown into the fixed 30 s wait, and is
\* eventually left that way; and that wait leads to a new connection attempt.
C3_SilentStreamIsReconnected ==
  /\ [](Streaming /\ conns[streamInstance].st = "open"
          => idle < MonitorDeadline)
  /\ [][ (Streaming /\ conns[streamInstance].destroys.monitor > 0)
          => \/ Streaming'
             \/ signalled'
             \/ (pc' = "waiting" /\ waitFor' = INITIAL_DELAY
                   /\ streamInstance' = 0) ]_vars
  /\ (Streaming /\ conns[streamInstance].destroys.monitor > 0)
       ~> (signalled \/ (pc = "waiting" /\ exitForced
                           /\ waitFor = INITIAL_DELAY /\ streamInstance = 0))
  /\ (pc = "waiting" /\ exitForced) ~> (signalled \/ pc = "connecting")

\* C4 (as claimed): on a connection the liveness monitor force-closed,
\* destroy() is requested exactly once by monitor and teardown together.
C4_ForceClosedExactlyOnce ==
  \A c \in ConnIds :
    conns[c].destroys.monitor > 0
      => conns[c].destroys.monitor + conns[c].destroys.teardown = 1

\* C5 (as claimed): in the back-off revisions every rate-limit failure is
\* followed by a wait of at least 60 s, and a rate-limit failure that directly
\* follows another one waits twice as long as that one.
C5_RateLimitDelayGrows ==
  [][ (variant \in BackoffVariants /\ CycleEnds /\ exitKind' = "rateLimit")
        => /\ pc' = "waiting"
           /\ waitFor' >= RATE_LIMIT_FLOOR
           /\ exitKind = "rateLimit" => waitFor' = 2 * waitFor ]_vars

\* C6 (as claimed): in the back-off revisions a rate-limit failure that comes
\* after a period of streaming with delivered events waits the 60 s floor.
C6_StreamingResetsBackoff ==
  [][ (variant \in BackoffVariants /\ CycleEnds /\ exitKind' = "rateLimit"
         /\ streamedSince)
        => waitFor' = RATE_LIMIT_FLOOR ]_vars

\* C7: every stream cycle that ends without a rate-limit failure (clean end,
\* abort, any other error, at connect, in the stream or in the event handler)
\* is followed by a wait of exactly 30 s, whatever reconnectDelay was before.
C7_TransientFaultFixedDelay ==
  [][ (CycleEnds /\ exitKind' \in {"end", "abort", "other"})
        => (pc' = "waiting" /\ waitFor' = INITIAL_DELAY) ]_vars

\* C7 witness: a non-rate-limit error ended a cycle that began with a raised
\* back-off, and the wait is 30 s.
C7_Witness ==
  /\ pc = "waiting"
  /\ exitKind = "other"
  /\ prevDelay > RATE_LIMIT_FLOOR
  /\ waitFor = INITIAL_DELAY

\* C8 (as claimed): after a stream ended with AbortError no reconnect wait is
\* scheduled and no connection attempt follows.
C8_AbortNeverReconnects ==
  ~(exitKind = "abort" /\ exitOrigin = "stream"
      /\ pc \in {"waiting", "connecting"})

\* C8 (amended): a cycle that ends with AbortError happens only while no
\* shutdown was requested, is torn down like any other, and is followed by
\* the 30 s wait and then, absent a signal, by a new connection attempt.
C8_AbortReconnectsAfterFixedDelay ==
  [][ /\ (CycleEnds /\ exitKind' = "abort")
         => (~isShuttingDown /\ pc' = "waiting" /\ streamInstance' = 0
               /\ reconnectDelay' = INITIAL_DELAY /\ waitFor' = INITIAL_DELAY)
      /\ (pc = "waiting" /\ exitKind = "abort" /\ pc' # pc /\ ~signalled')
         => ConnectAttempt ]_vars

\* C8 witness: runStream connects again after a stream that ended with
\* AbortError while a back-off had been raised.
C8_Witness ==
  /\ pc = "connecting"
  /\ exitKind = "abort"
  /\ exitOrigin = "stream"
  /\ prevDelay >= RATE_LIMIT_FLOOR
  /\ waitFor = INITIAL_DELAY

\* C9 (as claimed): no stream cycle is ever ended by a fault raised while
\* forwarding a post.
C9_ForwardFaultNeverEndsStream == exitOrigin # "handler"

\* C10 (as claimed): whichever callers release the same connection twice, no
\* fault of the second release escapes unhandled.
C10_SecondReleaseNeverEscapes ==
  [][ (streamInstance # 0 /\ conns[streamInstance].st = "closed")
        => unhandledFault' = unhandledFault ]_vars

RECURSIVE InsertById(_, _)
InsertById(t, sorted) ==
  IF sorted = <<>> THEN <<t>>
  ELSE IF t.id < Head(sorted).id THEN <<t>> \o sorted
  ELSE <<Head(sorted)>> \o InsertById(t, Tail(sorted))

RECURSIVE AscendingById(_)
AscendingById(tweets) ==
  IF tweets = <<>> THEN <<>>
  ELSE InsertById(tweets[Len(tweets)],
                  AscendingById(SubSeq(tweets, 1, Len(tweets) - 1)))

\* C12 (as claimed): every finalized group that is not a standalone reply
\* emits exactly one record: the trimmed texts joined by single spaces in
\* ascending identifier order, the timestamp and username of the lowest-id
\* post, tweetId and conversationId both the conversation id.
C12_GroupEmitsOrderedRecord ==
  \A i \in 1..Len(finalized) :
    ~Discards(finalized[i].tweets)
      => finalized[i].records =
           {Payload(finalized[i].conversation,
                    AscendingById(finalized[i].tweets))}

\* C13 (as claimed): a finalized group of exactly one post whose trimmed text
\* starts with '@' forwards nothing; every other finalized group makes
\* exactly one forward attempt.
C13_DiscardOrOneForward ==
  \A i \in 1..Len(finalized) :
    IF Discards(finalized[i].tweets)
    THEN finalized[i].result = "discarded"
    ELSE finalized[i].result = "posted"

\* The references of the forwarded post that resolve in includes.tweets.
Resolving(type) ==
  {i \in DOMAIN event.tweet.refs :
     /\ event.tweet.refs[i].type = type
     /\ event.includes.hasTweets
     /\ event.tweet.refs[i].id \in event.includes.tweets}

\* The quote and retweet references whose target the side tables lack.
Unresolved ==
  {i \in DOMAIN event.tweet.refs :
     /\ event.tweet.refs[i].type \in {"quoted", "retweeted"}
     /\ event.tweet.refs[i].id \notin event.includes.tweets}

Tokens(text) == {text[i] : i \in DOMAIN text}

\* C14 (as claimed): a forwarded post with a resolving retweet reference is
\* rendered exactly as "RT @<handle> <retweeted text, newlines collapsed>" for
\* one of its retweet references, whatever other references it carries and
\* in whatever order; no quote annotation appears.
C14_RetweetOverridesQuote ==
  (fpc = "done" /\ ~forwarded.threw /\ Resolving("retweeted") # {})
    => \E i \in Resolving("retweeted") :
         LET target == RefTweet(event.tweet.refs[i].id) IN
         forwarded.tweetText =
           <<"RT @">> \o HandleOf(event.includes, target.author_id) \o <<" ">>
             \o CollapseNewlines(BaseText(target))

\* C15 (as claimed): a post with a quote or retweet reference whose target
\* the side tables lack is still rendered with the handle "unknown", and
\* forwardTweet throws nothing.
C15_MissingTargetRendersUnknown ==
  (fpc = "done" /\ Unresolved # {})
    => (~forwarded.threw /\ "unknown" \in Tokens(forwarded.tweetText))

\* C16 (as claimed): the tweetText of a forwarded payload holds no newline.
C16_PayloadHasNoNewline ==
  (fpc = "done" /\ ~forwarded.threw) => "\n" \notin Tokens(forwarded.tweetText)

\* C17 (as claimed): when the bearer token or the sink URL is missing, the
\* service stops at startup: it never calls searchStream, opens a connection,
\* consumes an event or posts to the sink.
C17_MissingConfigFailsFast ==
  (~tokenSet \/ ~webhookSet)
    => /\ pc \notin {"connecting", "streaming", "forwarding", "waiting"}
       /\ \A c \in ConnIds : conns[c].st = "unused"
       /\ lastForward = "none"

\* The step in which a monitor callback calls destroy() on connection c.
MonitorDestroys(c) == conns'[c].destroys.monitor > conns[c].destroys.monitor

\* C18: once a startStream call that attempted a connection has completed,
\* streamInstance is null and neither a liveness timer nor a liveness
\* interval is pending; the 'already active' guard never ends a call made
\* by runStream.
C18_TeardownLeavesNothingBehind ==
  /\ pc \in {"waiting", "done"}
       => (streamInstance = 0 /\ ~inactivityTimer /\ ~inactivityInterval)
  /\ exitKind # "guard"

\* C18 witness: a call that streamed and then ended cleanly has completed,
\* its connection released by the finally block.
C18_Witness ==
  /\ pc = "waiting"
  /\ exitKind = "end"
  /\ exitOrigin = "stream"
  /\ streamInstance = 0
  /\ \E c \in ConnIds : conns[c].destroys.teardown = 1

\* C19: no monitor callback is pending when a startStream call begins, and
\* a monitor callback calls destroy() only on the connection in streamInstance
\* while the call that opened it is still in progress: a callback armed in
\* one cycle never touches the connection of a later cycle.
C19_MonitorClosesOwnCycleOnly ==
  [][ /\ (pc \in {"start", "waiting"} /\ pc' = "connecting")
         => (~inactivityTimer /\ ~inactivityInterval)
      /\ \A c \in ConnIds :
           MonitorDestroys(c) => (c = streamInstance /\ Streaming) ]_vars

\* C19 witness: the monitor has closed the connection of a later cycle,
\* after an earlier cycle that it had not touched.
C19_Witness ==
  /\ Streaming
  /\ exitKind # "none"
  /\ ~exitForced
  /\ conns[streamInstance].destroys.monitor > 0

\* C20 (as claimed): the monitor never force-closes an open connection on
\* which a provider event, post or heartbeat, arrived less than the
\* inactivity timeout ago.
C20_ActivityPreventsForcedClose ==
  [][ \A c \in ConnIds :
        (MonitorDestroys(c) /\ conns[c].st = "open") => ~beatSince ]_vars

\* C21: a post of a conversation that has a live group is appended and the
\* pending timeout is left alone; a post of a conversation without a group
\* creates a group of that one post with a timeout of its own; and a group
\* is finalized exactly DEBOUNCE after its first post.
C21_FixedDebounceFromFirstPost ==
  [][ \A c \in ConvIds :
        /\ (groups[c] # <<>> /\ Len(groups'[c]) > Len(groups[c]))
             => (age'[c] = age[c] /\ timers' = timers)
        /\ (groups[c] = <<>> /\ groups'[c] # <<>>)
             => (Len(groups'[c]) = 1 /\ c \in timers' /\ age'[c] = 0)
        /\ (groups[c] # <<>> /\ groups'[c] = <<>>)
             => age[c] = DEBOUNCE ]_vars

\* C21 witness: a group of two posts was finalized, and a later post of the
\* same conversation sits in a new group whose timeout is running.
C21_Witness ==
  \E i \in 1..Len(finalized) :
    /\ Len(finalized[i].tweets) = 2
    /\ Len(groups[finalized[i].conversation]) = 1
    /\ finalized[i].conversation \in timers
    /\ age[finalized[i].conversation] = 1

\* Where a tweet sits: its positions in `observed`, in the live groups and
\* in the groups handed to processGroup.
ObservedAt(t) == {i \in DOMAIN observed : observed[i] = t}
LiveAt(t) ==
  {p \in UNION {{<<c, i>> : i \in DOMAIN groups[c]} : c \in ConvIds} :
     groups[p[1]][p[2]] = t}
FinalizedAt(t) ==
  {p \in UNION {{<<k, i>> : i \in DOMAIN finalized[k].tweets} :
                  k \in DOMAIN finalized} :
     finalized[p[1]].tweets[p[2]] = t}

\* Every observed post is in exactly one group, live or finalized, under
\* its own conversation, and nothing else is in any group.
EachPostInOneGroup ==
  /\ \A i \in DOMAIN observed :
       Cardinality(ObservedAt(observed[i]))
         = Cardinality(LiveAt(observed[i]))
             + Cardinality(FinalizedAt(observed[i]))
  /\ \A c \in ConvIds : \A i \in DOMAIN groups[c] :
       groups[c][i].conversation_id = c /\ ObservedAt(groups[c][i]) # {}
  /\ \A k \in DOMAIN finalized : \A i \in DOMAIN finalized[k].tweets :
       /\ finalized[k].tweets[i].conversation_id = finalized[k].conversation
       /\ ObservedAt(finalized[k].tweets[i]) # {}

\* C22: under every interleaving of timeouts, pending sink calls and new
\* posts, a group handed to processGroup never changes again (no post is
\* appended to it), every step that finalizes a group removes it from the
\* live map, and every observed post is in exactly one group, never in two
\* and never in none.
C22_NoAppendAfterFinalization ==
  [][ /\ \A k \in DOMAIN finalized :
           k \in DOMAIN finalized' /\ finalized'[k] = finalized[k]
      /\ Len(finalized') > Len(finalized)
           => groups'[finalized'[Len(finalized')].conversation] = <<>>
      /\ EachPostInOneGroup' ]_vars

\* C22 witness: while the sink call of a finalized group is pending, a new
\* post of the same conversation has arrived and sits in a new group.
C22_Witness ==
  \E k \in inflight :
    /\ groups[finalized[k].conversation] # <<>>
    /\ finalized[k].conversation \in timers

\* C23 (as claimed): at any moment at most one sink POST is in flight.
C23_AtMostOneSinkCallInFlight == Cardinality(inflight) <= 1

\* C24: while the process lives, every live group has its timeout pending,
\* every group that exists is eventually finalized and removed from the live
\* map, also when the stream has ended or failed in the meantime, and the
\* live map ends up empty.
C24_EveryGroupEventuallyFinalized ==
  /\ [](GAlive => \A c \in ConvIds : groups[c] # <<>> => c \in timers)
  /\ \A c \in ConvIds : (groups[c] # <<>>) ~> (groups[c] = <<>> \/ ~GAlive)
  /\ <>[](~GAlive \/ \A c \in ConvIds : groups[c] = <<>>)

\* C24 witness: the stream has ended, the process lives, and a group that
\* was still buffered at that moment has been finalized since.
C24_Witness ==
  /\ gpc = "returned"
  /\ Len(finalized) > 0
  /\ Len(observed) = MaxPosts
  /\ \A c \in ConvIds : groups[c] = <<>>
  /\ timers = {}

\* C25 (as claimed): reconnectDelay is always 30 s or 60 s * 2^k, and every
\* wait between the end of a stream cycle and the next connection attempt
\* lasts at least 30 s.
C25_WaitNeverBelowInitial ==
  /\ \/ reconnectDelay = INITIAL_DELAY
     \/ \E k \in 0..MaxBackoffSteps : reconnectDelay = RATE_LIMIT_FLOOR * (2 ^ k)
  /\ pc = "waiting" => waitFor >= INITIAL_DELAY

\* C26: in the back-off revisions every startStream call that ends without
\* a rate-limit error, also one that failed before it ever streamed, leaves
\* reconnectDelay at 30 s and waits 30 s; hence a rate-limit failure that
\* follows such a call waits the 60 s floor and not a doubled delay.
C26_NonRateLimitReturnResetsDelay ==
  [][ /\ (variant \in BackoffVariants /\ CycleEnds /\ exitKind' # "rateLimit")
         => (reconnectDelay' = INITIAL_DELAY /\ waitFor' = INITIAL_DELAY)
      /\ (variant \in BackoffVariants /\ CycleEnds /\ exitKind' = "rateLimit"
            /\ exitKind \in {"end", "abort", "other"})
         => (reconnectDelay' = RATE_LIMIT_FLOOR /\ waitFor' = RATE_LIMIT_FLOOR) ]_vars

\* C26 witness: after a rate-limit failure had raised the delay, a connect
\* failure of another kind has put it back to 30 s.
C26_Witness ==
  /\ variant \in BackoffVariants
  /\ pc = "waiting"
  /\ exitKind = "other"
  /\ exitOrigin = "connect"
  /\ ~streamedSince
  /\ prevDelay >= RATE_LIMIT_FLOOR
  /\ reconnectDelay = INITIAL_DELAY

====
